---- MODULE Spec2Model ----
(***************************************************************************)
(* Model of the find.bi backend: the relational `workspaces` table, the    *)
(* per-workspace DuckDB files and the HTTP handlers of api/workspaces.py   *)
(* and api/data.py that act on them.                                       *)
(*                                                                         *)
(* Strings the code transforms (workspace names, upload filenames) are     *)
(* sequences of one-character strings, so that strip/lower/replace and     *)
(* os.path.splitext are computed, not assumed.                             *)
(***************************************************************************)
EXTENDS Integers, Sequences, FiniteSets, TLC

VARIABLES
    workspaces,     \* rows of the relational table `workspaces`
    next_uuid,      \* the next primary key uuid.uuid4 hands out
    duckdb_files,   \* the DuckDB files on disk: path -> catalog of tables
    upload_dirs,    \* the upload directories os.makedirs has created
    upload_files,   \* the raw files written under the upload directories
    next_file_id,   \* the next file_id uuid.uuid4 hands out
    last,           \* the response of the request being answered
    ingested,       \* history: the source file each table was ingested from last
    users,          \* rows of the relational table `users`
    next_user_id,   \* the next primary key of a user row, also the next bcrypt salt
    registrations,  \* the register_user calls in progress, one per session
    now,            \* datetime.now(timezone.utc), in whole seconds
    tokens,         \* history: the create_access_token calls and what they returned
    auth_result,    \* what the last call of services/auth_service.py returned or raised
    txn,            \* the ingest_file call in progress: its connection and transaction
    deletions,      \* the DELETE /sources requests in progress, one per session
    writers,        \* the ingest_file calls of two racing requests, one per session
    handles,        \* the handles open on database files: who holds which file
    calls,          \* the list_tables and drop_table calls in progress, one per session
    observed        \* what the last list_tables of a concurrent request returned,
                    \* and, as history, the ingestion in progress at that moment

auth_vars == <<users, next_user_id, registrations, now, tokens, auth_result>>

data_vars == <<workspaces, next_uuid, duckdb_files, upload_dirs, upload_files,
               next_file_id, last, ingested>>

engine_vars == <<txn, observed, writers, handles, calls>>

vars == <<workspaces, next_uuid, duckdb_files, upload_dirs, upload_files,
          next_file_id, last, ingested,
          users, next_user_id, registrations, now, tokens, auth_result,
          txn, observed, deletions, writers, handles, calls>>

(***************************************************************************)
(* Bounds of the model.                                                    *)
(***************************************************************************)
MaxWorkspaces == 2
MaxUploads == 1

(***************************************************************************)
(* Python string functions on sequences of characters.                     *)
(***************************************************************************)
lower_char(c) ==
    CASE c = "A" -> "a"
      [] c = "B" -> "b"
      [] c = "C" -> "c"
      [] c = "D" -> "d"
      [] c = "S" -> "s"
      [] c = "V" -> "v"
      [] OTHER -> c

lower(s) == [i \in 1..Len(s) |-> lower_char(s[i])]

replace(s, old, new) == [i \in 1..Len(s) |-> IF s[i] = old THEN new ELSE s[i]]

RECURSIVE lstrip(_)
lstrip(s) == IF s # <<>> /\ Head(s) = " " THEN lstrip(Tail(s)) ELSE s

RECURSIVE rstrip(_)
rstrip(s) ==
    IF s # <<>> /\ s[Len(s)] = " " THEN rstrip(SubSeq(s, 1, Len(s) - 1)) ELSE s

strip(s) == rstrip(lstrip(s))

(***************************************************************************)
(* The authenticated users (api.auth.get_authenticated_user resolves the   *)
(* bearer token to one of them) and the inputs of the workspace routes.    *)
(***************************************************************************)
Users == {"u1", "u2"}

WorkspaceNames ==
    { <<" ">>,
      <<"A", " ", "b">>,
      <<" ", "a", "_", "b", " ">> }

\* A workspace_id as the client sends it: the text of a UUID, or no UUID at all.
uuid_str(n) == <<"uuid", n>>
WorkspaceIdStrings == {uuid_str(n) : n \in 1..MaxWorkspaces} \cup {<<"not-a-uuid">>}

\* _uuid.UUID(workspace_id) raises ValueError unless the text is a UUID's.
is_uuid(s) == Len(s) = 2 /\ s[1] = "uuid"
UUID(s) == s[2]


(***************************************************************************)
(* api/workspaces.py                                                       *)
(***************************************************************************)
\* The f-string f"{DUCKDB_PATH}/{user.id}/{slug}.db": DUCKDB_PATH and ".db" are
\* the same in every path and user.id has a fixed width, so two paths are the
\* same string exactly when owner and slug are.
duckdb_path_of(user, name) ==
    <<user, replace(lower(strip(name)), " ", "_")>>

Workspace(id, name, owner_id, duckdb_path) ==
    [id |-> id, name |-> name, owner_id |-> owner_id, duckdb_path |-> duckdb_path]

\* db.query(Workspace).filter(Workspace.id == ws_uuid,
\*                            Workspace.owner_id == user.id).first()
query_workspace(ws_uuid, user) ==
    {w \in workspaces : w.id = ws_uuid /\ w.owner_id = user}

\* What a request answered: the handler, the workspace_id and the user of the
\* request, the status code and detail, whether the handler called the DuckDB
\* engine, and what a listing lists, in order (table names, workspace ids).
Request(workspace_id, user) == [workspace_id |-> workspace_id, user |-> user]

Response(op, request, status, detail, engine, tables) ==
    [op |-> op, request |-> request, status |-> status, detail |-> detail,
     engine |-> engine, tables |-> tables]

create_workspace(name, user) ==
    IF strip(name) = <<>>
    THEN /\ last' = Response("create_workspace", Request(<<>>, user), 400,
                             "Workspace name cannot be empty", FALSE, <<>>)
         /\ UNCHANGED <<workspaces, next_uuid>>
    ELSE /\ next_uuid <= MaxWorkspaces
         /\ workspaces' = workspaces \cup
                {Workspace(next_uuid, strip(name), user, duckdb_path_of(user, name))}
         /\ next_uuid' = next_uuid + 1
         /\ last' = Response("create_workspace", Request(uuid_str(next_uuid), user), 201,
                             "", FALSE, <<>>)

\* delete_workspace with the owner filter left out of its query.
delete_workspace_any_owner(workspace_id, user) ==
    IF ~is_uuid(workspace_id)
    THEN /\ last' = Response("delete_workspace",
                             Request(workspace_id, user),
                             404, "Workspace not found", FALSE, <<>>)
         /\ UNCHANGED workspaces
    ELSE IF {w \in workspaces : w.id = UUID(workspace_id)} = {}
    THEN /\ last' = Response("delete_workspace",
                             Request(workspace_id, user),
                             404, "Workspace not found", FALSE, <<>>)
         /\ UNCHANGED workspaces
    ELSE /\ workspaces' = {w \in workspaces : w.id # UUID(workspace_id)}
         /\ last' = Response("delete_workspace",
                             Request(workspace_id, user),
                             204, "", FALSE, <<>>)

delete_workspace(workspace_id, user) ==
    IF ~is_uuid(workspace_id)
    THEN /\ last' = Response("delete_workspace",
                             Request(workspace_id, user),
                             404, "Workspace not found", FALSE, <<>>)
         /\ UNCHANGED workspaces
    ELSE IF query_workspace(UUID(workspace_id), user) = {}
    THEN /\ last' = Response("delete_workspace",
                             Request(workspace_id, user),
                             404, "Workspace not found", FALSE, <<>>)
         /\ UNCHANGED workspaces
    ELSE /\ workspaces' = workspaces \ query_workspace(UUID(workspace_id), user)
         /\ last' = Response("delete_workspace",
                             Request(workspace_id, user),
                             204, "", FALSE, <<>>)

\* _workspace_response(ws): what the client is shown of a row.
_workspace_response(ws) ==
    [id |-> uuid_str(ws.id), name |-> ws.name, duckdb_path |-> ws.duckdb_path]

\* .order_by(Workspace.created_at).all(): ids are handed out in creation order,
\* so the row created first is the one with the least id.
RECURSIVE order_by_created_at(_)
order_by_created_at(rows) ==
    IF rows = {} THEN <<>>
    ELSE LET first == CHOOSE w \in rows : \A v \in rows : w.id <= v.id
         IN  <<first>> \o order_by_created_at(rows \ {first})

\* list_workspaces with the owner filter left out of its query.
list_workspaces_any_owner(user) ==
    LET rows == order_by_created_at(workspaces)
    IN  [i \in 1..Len(rows) |-> _workspace_response(rows[i])]

list_workspaces(user) ==
    LET rows == order_by_created_at({w \in workspaces : w.owner_id = user})
    IN  [i \in 1..Len(rows) |-> _workspace_response(rows[i])]

\* The server of the model takes a request when the response before it has gone
\* out: every handler runs to its end in one step.
idle == last.op = "none"

CreateWorkspace(name, user) ==
    /\ idle
    /\ create_workspace(name, user)
    /\ UNCHANGED <<auth_vars, engine_vars, deletions>>
    /\ UNCHANGED <<duckdb_files, upload_dirs, upload_files, next_file_id, ingested>>

CreateWorkspaceRequest ==
    \E name \in WorkspaceNames, user \in Users : CreateWorkspace(name, user)

DeleteWorkspace(workspace_id, user) ==
    /\ idle
    /\ delete_workspace(workspace_id, user)
    /\ UNCHANGED <<auth_vars, engine_vars, deletions>>
    /\ UNCHANGED <<next_uuid, duckdb_files, upload_dirs, upload_files,
                   next_file_id, ingested>>

DeleteWorkspaceRequest ==
    \E workspace_id \in WorkspaceIdStrings, user \in Users :
        DeleteWorkspace(workspace_id, user)


(***************************************************************************)
(* services/duckdb_service.py: the engine api/data.py and the tests call.  *)
(* A DuckDB file is a catalog: the tables in creation order, each with its *)
(* columns (name, native type) and its rows.                               *)
(***************************************************************************)
Column(name, duckdb_type) == [name |-> name, duckdb_type |-> duckdb_type]

\* The source files the tests ingest: what the loader reads from each.
sales_csv ==
    [name |-> "sales.csv", parsable |-> TRUE,
     columns |-> <<Column("id", "BIGINT"), Column("name", "VARCHAR"),
                   Column("score", "DOUBLE")>>,
     rows |-> <<"1,Alice,95.5", "2,Bob,87.0">>]

stock_csv ==
    [name |-> "stock.csv", parsable |-> TRUE,
     columns |-> <<Column("sku", "VARCHAR")>>,
     rows |-> <<"A-17">>]

broken_csv ==
    [name |-> "broken.csv", parsable |-> FALSE, columns |-> <<>>, rows |-> <<>>]

SourceFiles == {sales_csv, stock_csv, broken_csv}

\* Table names in ascending order; the last is no valid identifier.
SortedNames == <<"alpha", "nope", "zebra">>
TableNames == {"alpha", "nope", "zebra", "sa;les"}

\* The ingest_file calls of the model: (table_name, file).
IngestCalls ==
    { <<"alpha", sales_csv>>, <<"alpha", stock_csv>>, <<"alpha", broken_csv>>,
      <<"zebra", sales_csv>>, <<"sa;les", sales_csv>> }

valid_table_name(table_name) == \E i \in 1..Len(SortedNames) : SortedNames[i] = table_name

name_rank(table_name) == CHOOSE i \in 1..Len(SortedNames) : SortedNames[i] = table_name

isfile(db_path) == db_path \in DOMAIN duckdb_files

table_names(catalog) == {catalog[i].table_name : i \in 1..Len(catalog)}

RECURSIVE without_table(_, _)
without_table(catalog, table_name) ==
    IF catalog = <<>> THEN <<>>
    ELSE IF Head(catalog).table_name = table_name
         THEN without_table(Tail(catalog), table_name)
         ELSE <<Head(catalog)>> \o without_table(Tail(catalog), table_name)

write_file(files, db_path, catalog) ==
    [p \in DOMAIN files \cup {db_path} |-> IF p = db_path THEN catalog ELSE files[p]]

\* load_table appending to the table that is there instead of replacing it.
load_table_append(catalog, file, table_name) ==
    IF table_name \in table_names(catalog)
    THEN [i \in 1..Len(catalog) |->
            IF catalog[i].table_name = table_name
            THEN [catalog[i] EXCEPT !.rows = @ \o file.rows]
            ELSE catalog[i]]
    ELSE catalog \o
        << [table_name |-> table_name, columns |-> file.columns, rows |-> file.rows] >>

\* CREATE OR REPLACE TABLE <table_name> AS SELECT * FROM read_...(<file>)
load_table(catalog, file, table_name) ==
    without_table(catalog, table_name) \o
        << [table_name |-> table_name, columns |-> file.columns, rows |-> file.rows] >>

\* ingest_file(db_path, file_path, table_name): the outcomes it can have. It
\* raises IngestionError and leaves every table as it was when the table name
\* is invalid or the source cannot be parsed; whether the database file has
\* been created by then is not settled, so both are outcomes.
ingest_file(db_path, file, table_name) ==
    IF ~valid_table_name(table_name) \/ ~file.parsable
    THEN { [raised |-> TRUE, files |-> duckdb_files],
           [raised |-> TRUE,
            files |-> IF isfile(db_path) THEN duckdb_files
                      ELSE write_file(duckdb_files, db_path, <<>>)] }
    ELSE { [raised |-> FALSE,
            files |-> write_file(duckdb_files, db_path,
                         load_table(IF isfile(db_path) THEN duckdb_files[db_path]
                                    ELSE <<>>, file, table_name))] }

\* The logical type reported for a native type.
map_type(duckdb_type) ==
    CASE duckdb_type = "BIGINT" -> "integer"
      [] duckdb_type = "DOUBLE" -> "floating-point"
      [] duckdb_type = "VARCHAR" -> "text"
      [] duckdb_type = "BOOLEAN" -> "boolean"
      [] duckdb_type = "TIMESTAMP" -> "date/time"
      [] OTHER -> "other"

\* describe_table counting the header line of the source as a row.
describe_table_counts_header(table) ==
    [table_name |-> table.table_name,
     columns |-> [i \in 1..Len(table.columns) |->
                    [name |-> table.columns[i].name,
                     type |-> map_type(table.columns[i].duckdb_type),
                     duckdb_type |-> table.columns[i].duckdb_type]],
     row_count |-> Len(table.rows) + 1]

describe_table(table) ==
    [table_name |-> table.table_name,
     columns |-> [i \in 1..Len(table.columns) |->
                    [name |-> table.columns[i].name,
                     type |-> map_type(table.columns[i].duckdb_type),
                     duckdb_type |-> table.columns[i].duckdb_type]],
     row_count |-> Len(table.rows)]

RECURSIVE insert_sorted(_, _)
insert_sorted(sorted, d) ==
    IF sorted = <<>> THEN <<d>>
    ELSE IF name_rank(d.table_name) <= name_rank(Head(sorted).table_name)
         THEN <<d>> \o sorted
         ELSE <<Head(sorted)>> \o insert_sorted(Tail(sorted), d)

RECURSIVE order_by_name(_)
order_by_name(ds) ==
    IF ds = <<>> THEN <<>>
    ELSE insert_sorted(order_by_name(Tail(ds)), Head(ds))

\* The descriptors of the tables of a catalog, ORDER BY table_name.
describe_tables(catalog) ==
    order_by_name([i \in 1..Len(catalog) |-> describe_table(catalog[i])])

\* list_tables without its ORDER BY: the tables in catalog order.
list_tables_unordered(db_path) ==
    [i \in 1..Len(duckdb_files[db_path]) |-> describe_table(duckdb_files[db_path][i])]

\* list_tables(db_path): one descriptor per table, ORDER BY table_name.
list_tables(db_path) == describe_tables(duckdb_files[db_path])

\* drop_table removing every table of the database with the one asked for.
drop_table_drops_all(db_path, table_name, unopenable) ==
    IF ~valid_table_name(table_name) \/ unopenable
    THEN [raised |-> TRUE, dropped |-> FALSE, files |-> duckdb_files]
    ELSE IF table_name \in table_names(duckdb_files[db_path])
    THEN [raised |-> FALSE, dropped |-> TRUE,
          files |-> write_file(duckdb_files, db_path, <<>>)]
    ELSE [raised |-> FALSE, dropped |-> FALSE, files |-> duckdb_files]

\* drop_table(db_path, table_name): ValueError for an invalid name or a file
\* that cannot be opened (unopenable); else whether a table was removed.
drop_table(db_path, table_name, unopenable) ==
    IF ~valid_table_name(table_name) \/ unopenable
    THEN [raised |-> TRUE, dropped |-> FALSE, files |-> duckdb_files]
    ELSE IF table_name \in table_names(duckdb_files[db_path])
    THEN [raised |-> FALSE, dropped |-> TRUE,
          files |-> write_file(duckdb_files, db_path,
                               without_table(duckdb_files[db_path], table_name))]
    ELSE [raised |-> FALSE, dropped |-> FALSE, files |-> duckdb_files]


(***************************************************************************)
(* api/data.py                                                             *)
(***************************************************************************)
ALLOWED_EXTENSIONS ==
    { <<".", "c", "s", "v">>,
      <<".", "j", "s", "o", "n">>,
      <<".", "p", "a", "r", "q", "u", "e", "t">>,
      <<".", "x", "l", "s", "x">>,
      <<".", "x", "l", "s">> }

MAX_FILE_SIZE == 500 * 1024 * 1024

\* The filenames and payload lengths the uploads of the model carry.
Filenames ==
    { <<>>,
      <<"d", ".", "c", "s", "v">>,
      <<"D", ".", "C", "S", "V">>,
      <<"d", ".", "e", "x", "e">>,
      <<".", "c", "s", "v">> }

PayloadSizes == {0, 1, MAX_FILE_SIZE, MAX_FILE_SIZE + 1}

\* str.rfind: the last index of c in s, 0 when there is none.
rfind(s, c) ==
    IF \E i \in 1..Len(s) : s[i] = c
    THEN CHOOSE i \in 1..Len(s) : s[i] = c /\ \A j \in (i + 1)..Len(s) : s[j] # c
    ELSE 0

\* os.path.splitext(p)[1]: from the last dot on, when that dot comes after the
\* last separator and some character between the two is not a dot.
splitext_ext(p) ==
    LET sepIndex == rfind(p, "/")
        dotIndex == rfind(p, ".")
    IN  IF dotIndex > sepIndex
           /\ \E i \in (sepIndex + 1)..(dotIndex - 1) : p[i] # "."
        THEN SubSeq(p, dotIndex, Len(p))
        ELSE <<>>

_get_extension(filename) == lower(splitext_ext(filename))

UploadedFile(owner_id, workspace_id, file_id, ext, size) ==
    [owner_id |-> owner_id, workspace_id |-> workspace_id, file_id |-> file_id,
     ext |-> ext, size |-> size]

\* upload_file making the upload directory before it validates the extension.
upload_file_makedirs_first(workspace_id, filename, size, user) ==
    LET reject(status, detail) ==
            [status |-> status, detail |-> detail,
             dirs |-> upload_dirs, files |-> upload_files]
    IN  IF ~is_uuid(workspace_id)
        THEN reject(404, "Workspace not found")
        ELSE IF query_workspace(UUID(workspace_id), user) = {}
        THEN reject(404, "Workspace not found")
        ELSE IF filename = <<>>
        THEN reject(400, "Filename is required")
        ELSE IF _get_extension(filename) \notin ALLOWED_EXTENSIONS
        THEN [status |-> 400, detail |-> "Unsupported file type",
              dirs |-> upload_dirs \cup {<<user, UUID(workspace_id)>>},
              files |-> upload_files]
        ELSE IF size > MAX_FILE_SIZE
        THEN reject(400, "File too large")
        ELSE IF size = 0
        THEN reject(400, "File is empty")
        ELSE [status |-> 201, detail |-> "",
              dirs |-> upload_dirs \cup {<<user, UUID(workspace_id)>>},
              files |-> upload_files \cup
                  {UploadedFile(user, UUID(workspace_id), next_file_id,
                                _get_extension(filename), size)}]

\* upload_file comparing the payload length with >= instead of >.
upload_file_cap_exclusive(workspace_id, filename, size, user) ==
    LET reject(status, detail) ==
            [status |-> status, detail |-> detail,
             dirs |-> upload_dirs, files |-> upload_files]
    IN  IF ~is_uuid(workspace_id)
        THEN reject(404, "Workspace not found")
        ELSE IF query_workspace(UUID(workspace_id), user) = {}
        THEN reject(404, "Workspace not found")
        ELSE IF filename = <<>>
        THEN reject(400, "Filename is required")
        ELSE IF _get_extension(filename) \notin ALLOWED_EXTENSIONS
        THEN reject(400, "Unsupported file type")
        ELSE IF size >= MAX_FILE_SIZE
        THEN reject(400, "File too large")
        ELSE IF size = 0
        THEN reject(400, "File is empty")
        ELSE [status |-> 201, detail |-> "",
              dirs |-> upload_dirs \cup {<<user, UUID(workspace_id)>>},
              files |-> upload_files \cup
                  {UploadedFile(user, UUID(workspace_id), next_file_id,
                                _get_extension(filename), size)}]

\* upload_file saving under the directory of the owner, whatever the workspace.
upload_file_owner_dir(workspace_id, filename, size, user) ==
    LET reject(status, detail) ==
            [status |-> status, detail |-> detail,
             dirs |-> upload_dirs, files |-> upload_files]
    IN  IF ~is_uuid(workspace_id)
        THEN reject(404, "Workspace not found")
        ELSE IF query_workspace(UUID(workspace_id), user) = {}
        THEN reject(404, "Workspace not found")
        ELSE IF filename = <<>>
        THEN reject(400, "Filename is required")
        ELSE IF _get_extension(filename) \notin ALLOWED_EXTENSIONS
        THEN reject(400, "Unsupported file type")
        ELSE IF size > MAX_FILE_SIZE
        THEN reject(400, "File too large")
        ELSE IF size = 0
        THEN reject(400, "File is empty")
        ELSE [status |-> 201, detail |-> "",
              dirs |-> upload_dirs \cup {<<user, 0>>},
              files |-> upload_files \cup
                  {UploadedFile(user, 0, next_file_id,
                                _get_extension(filename), size)}]

\* The response of upload_file and the directories and files on disk after it.
upload_file(workspace_id, filename, size, user) ==
    LET reject(status, detail) ==
            [status |-> status, detail |-> detail,
             dirs |-> upload_dirs, files |-> upload_files]
    IN  IF ~is_uuid(workspace_id)
        THEN reject(404, "Workspace not found")
        ELSE IF query_workspace(UUID(workspace_id), user) = {}
        THEN reject(404, "Workspace not found")
        ELSE IF filename = <<>>
        THEN reject(400, "Filename is required")
        ELSE IF _get_extension(filename) \notin ALLOWED_EXTENSIONS
        THEN reject(400, "Unsupported file type")
        ELSE IF size > MAX_FILE_SIZE
        THEN reject(400, "File too large")
        ELSE IF size = 0
        THEN reject(400, "File is empty")
        ELSE [status |-> 201, detail |-> "",
              dirs |-> upload_dirs \cup {<<user, UUID(workspace_id)>>},
              files |-> upload_files \cup
                  {UploadedFile(user, UUID(workspace_id), next_file_id,
                                _get_extension(filename), size)}]

\* _get_workspace_db_path without the owner filter of its query.
_get_workspace_db_path_any_owner(workspace_id, user) ==
    IF ~is_uuid(workspace_id)
    THEN [status |-> 404, db_path |-> <<>>]
    ELSE IF {w \in workspaces : w.id = UUID(workspace_id)} = {}
    THEN [status |-> 404, db_path |-> <<>>]
    ELSE [status |-> 200,
          db_path |-> (CHOOSE w \in workspaces : w.id = UUID(workspace_id)).duckdb_path]

\* _get_workspace_db_path: the duckdb_path of the workspace, or 404.
_get_workspace_db_path(workspace_id, user) ==
    IF ~is_uuid(workspace_id)
    THEN [status |-> 404, db_path |-> <<>>]
    ELSE IF query_workspace(UUID(workspace_id), user) = {}
    THEN [status |-> 404, db_path |-> <<>>]
    ELSE [status |-> 200,
          db_path |-> (CHOOSE w \in query_workspace(UUID(workspace_id), user) : TRUE).duckdb_path]

\* get_sources: the response; `unopenable` is list_tables raising ValueError.
get_sources(workspace_id, user, unopenable) ==
    LET found == _get_workspace_db_path(workspace_id, user)
    IN  IF found.status = 404
        THEN [status |-> 404, detail |-> "Workspace not found", engine |-> FALSE,
              body |-> <<>>]
        ELSE IF ~isfile(found.db_path)
        THEN [status |-> 200, detail |-> "", engine |-> FALSE, body |-> <<>>]
        ELSE IF unopenable
        THEN [status |-> 200, detail |-> "", engine |-> TRUE, body |-> <<>>]
        ELSE [status |-> 200, detail |-> "", engine |-> TRUE,
              body |-> list_tables(found.db_path)]

\* delete_source answering 204 for a table that is there without dropping it.
delete_source_keeps_table(table_name, workspace_id, user, unopenable) ==
    LET found == _get_workspace_db_path(workspace_id, user)
        answer(status, detail, engine, files) ==
            [status |-> status, detail |-> detail, engine |-> engine, files |-> files]
    IN  IF found.status = 404
        THEN answer(404, "Workspace not found", FALSE, duckdb_files)
        ELSE IF ~isfile(found.db_path)
        THEN answer(404, "Table not found", FALSE, duckdb_files)
        ELSE LET result == drop_table(found.db_path, table_name, unopenable)
             IN  IF result.raised
                 THEN answer(400, "ValueError", TRUE, duckdb_files)
                 ELSE IF ~result.dropped
                 THEN answer(404, "Table not found", TRUE, duckdb_files)
                 ELSE answer(204, "", TRUE, duckdb_files)

\* delete_source without its check of what drop_table returned.
delete_source_ignores_result(table_name, workspace_id, user, unopenable) ==
    LET found == _get_workspace_db_path(workspace_id, user)
        answer(status, detail, engine, files) ==
            [status |-> status, detail |-> detail, engine |-> engine, files |-> files]
    IN  IF found.status = 404
        THEN answer(404, "Workspace not found", FALSE, duckdb_files)
        ELSE IF ~isfile(found.db_path)
        THEN answer(404, "Table not found", FALSE, duckdb_files)
        ELSE LET result == drop_table(found.db_path, table_name, unopenable)
             IN  IF result.raised
                 THEN answer(400, "ValueError", TRUE, result.files)
                 ELSE answer(204, "", TRUE, result.files)

\* delete_source with `except ValueError: pass` around its drop_table call.
delete_source_swallows_error(table_name, workspace_id, user, unopenable) ==
    LET found == _get_workspace_db_path(workspace_id, user)
        answer(status, detail, engine, files) ==
            [status |-> status, detail |-> detail, engine |-> engine, files |-> files]
    IN  IF found.status = 404
        THEN answer(404, "Workspace not found", FALSE, duckdb_files)
        ELSE IF ~isfile(found.db_path)
        THEN answer(404, "Table not found", FALSE, duckdb_files)
        ELSE LET result == drop_table(found.db_path, table_name, unopenable)
             IN  IF result.raised
                 THEN answer(204, "", TRUE, result.files)
                 ELSE IF ~result.dropped
                 THEN answer(404, "Table not found", TRUE, result.files)
                 ELSE answer(204, "", TRUE, result.files)

\* delete_source: the response and the DuckDB files after it; `unopenable` is
\* drop_table failing to open the file.
delete_source(table_name, workspace_id, user, unopenable) ==
    LET found == _get_workspace_db_path(workspace_id, user)
        answer(status, detail, engine, files) ==
            [status |-> status, detail |-> detail, engine |-> engine, files |-> files]
    IN  IF found.status = 404
        THEN answer(404, "Workspace not found", FALSE, duckdb_files)
        ELSE IF ~isfile(found.db_path)
        THEN answer(404, "Table not found", FALSE, duckdb_files)
        ELSE LET result == drop_table(found.db_path, table_name, unopenable)
             IN  IF result.raised
                 THEN answer(400, "ValueError", TRUE, result.files)
                 ELSE IF ~result.dropped
                 THEN answer(404, "Table not found", TRUE, result.files)
                 ELSE answer(204, "", TRUE, result.files)


(***************************************************************************)
(* The requests and engine calls as steps of the system.                   *)
(***************************************************************************)
\* History kept beside the program: the entries whose table is still in `files`.
still_there(files, history) ==
    {g \in history : g.db_path \in DOMAIN files
                     /\ g.table_name \in table_names(files[g.db_path])}

\* The tests call ingest_file with the duckdb_path GET /workspaces reports.
Ingest(db_path, file, table_name) ==
    \E out \in ingest_file(db_path, file, table_name) :
        /\ idle
        /\ duckdb_files' = out.files
        /\ last' = Response("ingest_file", Request(<<>>, ""), 0,
                            IF out.raised THEN "IngestionError"
                            ELSE IF isfile(db_path)
                                    /\ table_name \in table_names(duckdb_files[db_path])
                                 THEN "replaced" ELSE "created",
                            TRUE, <<table_name>>)
        /\ ingested' =
             IF out.raised THEN ingested
             ELSE {g \in ingested : ~(g.db_path = db_path /\ g.table_name = table_name)}
                  \cup {[db_path |-> db_path, table_name |-> table_name, file |-> file]}
        /\ UNCHANGED <<auth_vars, engine_vars, deletions>>
        /\ UNCHANGED <<workspaces, next_uuid, upload_dirs, upload_files, next_file_id>>

IngestFile ==
    \E w \in workspaces, call \in IngestCalls :
        Ingest(w.duckdb_path, call[2], call[1])

GetSources(workspace_id, user, unopenable) ==
    LET r == get_sources(workspace_id, user, unopenable)
    IN  /\ idle
        /\ last' = Response("get_sources", Request(workspace_id, user),
                            r.status, r.detail, r.engine,
                            [i \in 1..Len(r.body) |-> r.body[i].table_name])
        /\ UNCHANGED <<auth_vars, engine_vars, deletions>>
        /\ UNCHANGED <<workspaces, next_uuid, duckdb_files, upload_dirs,
                       upload_files, next_file_id, ingested>>

GetSourcesRequest ==
    \E workspace_id \in WorkspaceIdStrings, user \in Users, unopenable \in BOOLEAN :
        GetSources(workspace_id, user, unopenable)

DeleteSource(table_name, workspace_id, user, unopenable) ==
    LET r == delete_source(table_name, workspace_id, user, unopenable)
    IN  /\ idle
        /\ last' = Response("delete_source", Request(workspace_id, user),
                            r.status, r.detail, r.engine, <<>>)
        /\ duckdb_files' = r.files
        /\ ingested' = still_there(r.files, ingested)
        /\ UNCHANGED <<auth_vars, engine_vars, deletions>>
        /\ UNCHANGED <<workspaces, next_uuid, upload_dirs, upload_files, next_file_id>>

DeleteSourceRequest ==
    \E table_name \in TableNames, workspace_id \in WorkspaceIdStrings,
       user \in Users, unopenable \in BOOLEAN :
        DeleteSource(table_name, workspace_id, user, unopenable)

UploadFile(workspace_id, filename, size, user) ==
    LET r == upload_file(workspace_id, filename, size, user)
    IN  /\ idle
        /\ r.status = 201 => next_file_id <= MaxUploads
        /\ last' = Response("upload_file", Request(workspace_id, user),
                            r.status, r.detail, FALSE, <<>>)
        /\ upload_dirs' = r.dirs
        /\ upload_files' = r.files
        /\ next_file_id' = IF r.status = 201 THEN next_file_id + 1 ELSE next_file_id
        /\ UNCHANGED <<auth_vars, engine_vars, deletions>>
        /\ UNCHANGED <<workspaces, next_uuid, duckdb_files, ingested>>

UploadFileRequest ==
    \E workspace_id \in WorkspaceIdStrings, filename \in Filenames,
       size \in PayloadSizes, user \in Users :
        UploadFile(workspace_id, filename, size, user)

\* The response goes out to the client.
Respond ==
    /\ ~idle
    /\ last' = Response("none", Request(<<>>, ""), 0, "", FALSE, <<>>)
    /\ UNCHANGED <<auth_vars, engine_vars, deletions>>
    /\ UNCHANGED <<workspaces, next_uuid, duckdb_files, upload_dirs, upload_files,
                   next_file_id, ingested>>
\* GET /api/workspaces/: the response carries the ids listed, in order.
ListWorkspaces(user) ==
    LET body == list_workspaces(user)
    IN  /\ idle
        /\ last' = Response("list_workspaces", Request(<<>>, user), 200, "", FALSE,
                            [i \in 1..Len(body) |-> body[i].id])
        /\ UNCHANGED <<auth_vars, engine_vars, deletions>>
        /\ UNCHANGED <<workspaces, next_uuid, duckdb_files, upload_dirs,
                       upload_files, next_file_id, ingested>>

ListWorkspacesRequest == \E user \in Users : ListWorkspaces(user)

(***************************************************************************)
(* services/auth_service.py                                                *)
(***************************************************************************)
MaxTokens == 1

JWT_SECRET == "change-me-to-a-random-secret"
JWT_EXPIRY_MINUTES == 60

Emails == {"ralph@springfield.edu", "dupe@example.com"}
Passwords == {"right", "wrong"}
Sessions == {"s1", "s2"}
UserIds == {1, 2}

\* The instants the clock of the model shows, in seconds.
Times == {0, 1, 2, 3, 3600, 3601}

\* expires_delta: no timedelta (None) or a timedelta of so many seconds.
ExpiresDeltas == {<<>>, <<-1>>, <<0>>, <<2>>}

\* bcrypt.hashpw(password, salt): the hash carries its salt, and checkpw hashes
\* the candidate with that salt and compares; the digest of a password under a
\* salt is written as the pair of the two.
hash_password(password, salt) == <<"$2b$", salt, <<salt, password>>>>

verify_password(password, password_hash) ==
    password_hash = hash_password(password, password_hash[2])

User(id, email, password_hash) ==
    [id |-> id, email |-> email, password_hash |-> password_hash]

\* jwt.encode(payload, key): the token carries its payload and is signed with
\* the key; a datetime claim is encoded as its whole seconds.
jwt_encode(payload, key) == [payload |-> payload, key |-> key]

create_access_token(user_id, expires_delta) ==
    LET delta == IF expires_delta = <<>> THEN JWT_EXPIRY_MINUTES * 60
                 ELSE expires_delta[1]
        expire == now + delta
    IN  jwt_encode([sub |-> uuid_str(user_id), exp |-> expire], JWT_SECRET)

\* Tokens that create_access_token did not make (the tests encode them).
ForgedTokens ==
    { jwt_encode([sub |-> uuid_str(1)], "wrong-secret"),
      jwt_encode([data |-> "no-sub"], JWT_SECRET),
      jwt_encode([sub |-> <<"not-a-uuid">>], JWT_SECRET) }

returned(value) == [raised |-> "", value |-> value]
raised(message) == [raised |-> message, value |-> 0]

\* decode_token without the expiry validation of jwt.decode.
decode_token_ignores_exp(token) ==
    IF token.key # JWT_SECRET
    THEN raised("Invalid token")
    ELSE IF "sub" \notin DOMAIN token.payload
    THEN raised("Token missing subject claim")
    ELSE IF ~is_uuid(token.payload.sub)
    THEN raised("Invalid user ID in token")
    ELSE returned(UUID(token.payload.sub))

\* decode_token: jwt.decode raises a JWTError for a signature made with another
\* key and, when the payload has an exp, for exp < now (python-jose compares
\* whole seconds and accepts the token during the second exp itself).
decode_token(token) ==
    IF token.key # JWT_SECRET
    THEN raised("Invalid token")
    ELSE IF "exp" \in DOMAIN token.payload /\ token.payload.exp < now
    THEN raised("Invalid token")
    ELSE IF "sub" \notin DOMAIN token.payload
    THEN raised("Token missing subject claim")
    ELSE IF ~is_uuid(token.payload.sub)
    THEN raised("Invalid user ID in token")
    ELSE returned(UUID(token.payload.sub))

\* db.query(User).filter(User.email == email).first()
query_user(email) == {u \in users : u.email = email}

\* authenticate_user without the password check.
authenticate_user_any_password(email, password) ==
    IF query_user(email) = {}
    THEN raised("Invalid email or password")
    ELSE returned(create_access_token((CHOOSE u \in query_user(email) : TRUE).id, <<>>))

authenticate_user(email, password) ==
    IF query_user(email) = {}
    THEN raised("Invalid email or password")
    ELSE LET user == CHOOSE u \in query_user(email) : TRUE
         IN  IF ~verify_password(password, user.password_hash)
             THEN raised("Invalid email or password")
             ELSE returned(create_access_token(user.id, <<>>))

Call(op, args, outcome) ==
    [op |-> op, args |-> args, raised |-> outcome.raised, value |-> outcome.value]

Registration(pc, email, password, outcome) ==
    [pc |-> pc, email |-> email, password |-> password, raised |-> outcome]

\* register_user up to its existence check (lines 65-67): the session has read
\* the table and either raised or goes on to insert.
RegisterUserQuery(session, email, password) ==
    /\ registrations[session].pc \in {"start", "done"}
    /\ registrations' =
           [registrations EXCEPT ![session] =
               IF query_user(email) # {}
               THEN Registration("done", email, password, "Email already registered")
               ELSE Registration("checked", email, password, "")]
    /\ UNCHANGED <<users, next_user_id, now, tokens, auth_result>>
    /\ UNCHANGED <<data_vars, engine_vars, deletions>>

\* The insert of register_user on a users table without the unique constraint.
RegisterUserCommit_without_unique(session) ==
    LET call == registrations[session]
    IN  /\ call.pc = "checked"
        /\ users' = users \cup
               {User(next_user_id, call.email,
                     hash_password(call.password, next_user_id))}
        /\ next_user_id' = next_user_id + 1
        /\ registrations' =
               [registrations EXCEPT ![session] =
                   Registration("done", call.email, call.password, "")]
        /\ UNCHANGED <<now, tokens, auth_result>>
        /\ UNCHANGED <<data_vars, engine_vars, deletions>>

\* register_user from db.add to its return (lines 68-76): users.email is
\* unique, so db.commit raises IntegrityError when the email has a row by now.
RegisterUserCommit(session) ==
    LET call == registrations[session]
    IN  /\ call.pc = "checked"
        /\ IF query_user(call.email) # {}
           THEN /\ registrations' =
                       [registrations EXCEPT ![session] =
                           Registration("done", call.email, call.password, "IntegrityError")]
                /\ UNCHANGED <<users, next_user_id>>
           ELSE /\ users' = users \cup
                       {User(next_user_id, call.email,
                             hash_password(call.password, next_user_id))}
                /\ next_user_id' = next_user_id + 1
                /\ registrations' =
                       [registrations EXCEPT ![session] =
                           Registration("done", call.email, call.password, "")]
        /\ UNCHANGED <<now, tokens, auth_result>>
        /\ UNCHANGED <<data_vars, engine_vars, deletions>>

RegisterUser ==
    \/ \E session \in Sessions, email \in Emails, password \in Passwords :
           RegisterUserQuery(session, email, password)
    \/ \E session \in Sessions : RegisterUserCommit(session)

\* A call of create_access_token, kept with the token it returned.
Issued(user_id, expires_delta) ==
    [token |-> create_access_token(user_id, expires_delta), user_id |-> user_id,
     at |-> now, expires_delta |-> expires_delta]

AuthenticateUser(email, password) ==
    LET r == authenticate_user(email, password)
    IN  /\ auth_result' = Call("authenticate_user", <<email, password>>, r)
        /\ tokens' = IF r.raised = "" THEN tokens \cup {Issued(UUID(r.value.payload.sub), <<>>)}
                     ELSE tokens
        /\ Cardinality(tokens') <= MaxTokens
        /\ UNCHANGED <<users, next_user_id, registrations, now>>
        /\ UNCHANGED <<data_vars, engine_vars, deletions>>

AuthenticateUserCall ==
    \E email \in Emails, password \in Passwords : AuthenticateUser(email, password)

CreateAccessToken(user_id, expires_delta) ==
    /\ tokens' = tokens \cup {Issued(user_id, expires_delta)}
    /\ Cardinality(tokens') <= MaxTokens
    /\ auth_result' = Call("create_access_token", <<user_id, expires_delta>>,
                      returned(create_access_token(user_id, expires_delta)))
    /\ UNCHANGED <<users, next_user_id, registrations, now>>
    /\ UNCHANGED <<data_vars, engine_vars, deletions>>

CreateAccessTokenCall ==
    \E user_id \in UserIds, expires_delta \in ExpiresDeltas :
        CreateAccessToken(user_id, expires_delta)

DecodeToken(token) ==
    /\ auth_result' = Call("decode_token", token, decode_token(token))
    /\ UNCHANGED <<users, next_user_id, registrations, now, tokens>>
    /\ UNCHANGED <<data_vars, engine_vars, deletions>>

DecodeTokenCall ==
    \E token \in {c.token : c \in tokens} \cup ForgedTokens : DecodeToken(token)

\* Time passes.
Advance ==
    /\ \E t \in Times : t > now /\ now' = t
    /\ UNCHANGED <<users, next_user_id, registrations, tokens, auth_result>>
    /\ UNCHANGED <<data_vars, engine_vars, deletions>>

(***************************************************************************)
(* ingest_file step by step, beside a concurrent list_tables. The call     *)
(* opens its own connection, replaces the table and loads the source in    *)
(* one transaction, and commits it or rolls it back before it returns.     *)
(***************************************************************************)
\* A source that parses up to its first data row and is malformed after it.
truncated_csv ==
    [name |-> "truncated.csv", parsable |-> FALSE,
     columns |-> <<Column("id", "BIGINT"), Column("name", "VARCHAR"),
                   Column("score", "DOUBLE")>>,
     rows |-> <<"1,Alice,95.5">>]

\* The ingest_file calls made beside a concurrent reader: (table_name, file).
ConcurrentIngestCalls ==
    { <<"alpha", sales_csv>>, <<"alpha", stock_csv>>, <<"alpha", truncated_csv>>,
      <<"alpha", broken_csv>>, <<"sa;les", sales_csv>> }

\* pc: "none" before the first call, "open" once connected, "loading" once the
\* table has been replaced by an empty one, "committed" or "failed" once the
\* call has returned or raised IngestionError. `before` is the catalog the
\* transaction started from, `staged` the catalog as the transaction has it.
Transaction(pc, db_path, file, table_name, before, staged) ==
    [pc |-> pc, db_path |-> db_path, file |-> file, table_name |-> table_name,
     before |-> before, staged |-> staged]

in_progress == txn.pc \in {"open", "loading"}

\* Opening the database creates the file when it is absent.
connect(db_path) ==
    IF isfile(db_path) THEN duckdb_files ELSE write_file(duckdb_files, db_path, <<>>)

\* The table named table_name in a catalog, as a sequence of none or one.
table_of(catalog, table_name) ==
    SelectSeq(catalog, LAMBDA t : t.table_name = table_name)

\* The rows of the table being loaded, in the transaction.
loaded(t) ==
    IF table_of(t.staged, t.table_name) = <<>> THEN <<>>
    ELSE table_of(t.staged, t.table_name)[1].rows

\* A reader that sees the writes of a transaction before its commit.
read_uncommitted(db_path) ==
    IF in_progress /\ txn.db_path = db_path THEN txn.staged ELSE duckdb_files[db_path]

\* What a connection other than the writer's reads: the committed catalog.
read_committed(db_path) == duckdb_files[db_path]

\* A failed load that keeps what the transaction had written so far.
rollback_keeps_partial(t) == write_file(duckdb_files, t.db_path, t.staged)

\* The files after a failed load: the transaction is rolled back.
rollback(t) == duckdb_files

\* A commit that keeps the rows the table had beside the rows loaded.
commit_keeps_old_rows(t) ==
    write_file(duckdb_files, t.db_path,
               IF table_of(t.before, t.table_name) = <<>> THEN t.staged
               ELSE load_table_append(t.before, t.file, t.table_name))

\* The files after a successful load: the transaction is committed.
commit(t) == write_file(duckdb_files, t.db_path, t.staged)

\* A handle on a database file, held by the ingest_file call or by the
\* list_tables or drop_table call of a session.
Handle(holder, db_path) == [holder |-> holder, db_path |-> db_path]

acquire(holder, db_path) == handles \cup {Handle(holder, db_path)}

\* An exit path of a call that leaves its handle open.
release_never(holder) == handles

\* The handle of the call is closed on every exit path of the call.
release(holder) == {h \in handles : h.holder # holder}

\* ingest_file connects and begins; no other ingestion holds a connection.
IngestBegin(db_path, file, table_name) ==
    /\ ~in_progress
    /\ duckdb_files' = connect(db_path)
    /\ handles' = acquire("ingest_file", db_path)
    /\ txn' = Transaction("open", db_path, file, table_name,
                          connect(db_path)[db_path], connect(db_path)[db_path])
    /\ UNCHANGED <<observed, ingested>>

\* CREATE OR REPLACE TABLE: the table of that name is dropped and created
\* empty with the columns of the source, inside the transaction.
IngestReplace ==
    /\ txn.pc = "open"
    /\ valid_table_name(txn.table_name)
    /\ txn.file.parsable \/ txn.file.rows # <<>>
    /\ txn' = [txn EXCEPT !.pc = "loading",
                          !.staged = load_table(txn.staged,
                                                [txn.file EXCEPT !.rows = <<>>],
                                                txn.table_name)]
    /\ UNCHANGED <<duckdb_files, observed, ingested, handles>>

\* One more row of the source is inserted, inside the transaction.
IngestLoadRow ==
    /\ txn.pc = "loading"
    /\ Len(loaded(txn)) < Len(txn.file.rows)
    /\ txn' = [txn EXCEPT !.staged =
                  load_table(txn.staged,
                             [txn.file EXCEPT !.rows =
                                 SubSeq(txn.file.rows, 1, Len(loaded(txn)) + 1)],
                             txn.table_name)]
    /\ UNCHANGED <<duckdb_files, observed, ingested, handles>>

\* The source has been read to its end: commit, close, return.
IngestCommit ==
    /\ txn.pc = "loading"
    /\ txn.file.parsable
    /\ loaded(txn) = txn.file.rows
    /\ duckdb_files' = commit(txn)
    /\ txn' = [txn EXCEPT !.pc = "committed"]
    /\ handles' = release("ingest_file")
    /\ ingested' =
         {g \in ingested : ~(g.db_path = txn.db_path /\ g.table_name = txn.table_name)}
         \cup {[db_path |-> txn.db_path, table_name |-> txn.table_name,
                file |-> txn.file]}
    /\ UNCHANGED observed

\* The table name is no valid identifier, or the source cannot be parsed (at
\* its start, or after the rows that could be read): roll back, close, raise
\* IngestionError.
IngestFail ==
    /\ \/ /\ txn.pc = "open"
          /\ \/ ~valid_table_name(txn.table_name)
             \/ ~txn.file.parsable /\ txn.file.rows = <<>>
       \/ /\ txn.pc = "loading"
          /\ ~txn.file.parsable
          /\ loaded(txn) = txn.file.rows
    /\ duckdb_files' = rollback(txn)
    /\ txn' = [txn EXCEPT !.pc = "failed"]
    /\ handles' = release("ingest_file")
    /\ UNCHANGED <<observed, ingested>>

\* list_tables(db_path) of another request, at any moment of an ingestion.
ListTablesConcurrently(db_path) ==
    /\ isfile(db_path)
    /\ observed' = [db_path |-> db_path,
                    tables |-> describe_tables(read_committed(db_path)),
                    writer |-> txn]
    /\ UNCHANGED <<duckdb_files, txn, ingested, handles>>

IngestStep ==
    /\ \/ \E w \in workspaces, call \in ConcurrentIngestCalls :
              IngestBegin(w.duckdb_path, call[2], call[1])
       \/ IngestReplace
       \/ IngestLoadRow
       \/ IngestCommit
       \/ IngestFail
    /\ UNCHANGED <<auth_vars, deletions, writers, calls>>
    /\ UNCHANGED <<workspaces, next_uuid, upload_dirs, upload_files, next_file_id, last>>

ConcurrentRead ==
    /\ \E w \in workspaces : ListTablesConcurrently(w.duckdb_path)
    /\ UNCHANGED <<auth_vars, deletions, writers, calls>>
    /\ UNCHANGED <<workspaces, next_uuid, upload_dirs, upload_files, next_file_id, last>>

\* The ingest_file call of a request: "start" before it is made, "waiting" for
\* the database, "running", and "returned" or "raised" once it is over.
Writer(pc, db_path, file, table_name) ==
    [pc |-> pc, db_path |-> db_path, file |-> file, table_name |-> table_name]

\* The ingest_file calls two requests make at the same time: (table_name, file).
RacingIngestCalls ==
    { <<"alpha", sales_csv>>, <<"alpha", stock_csv>>, <<"alpha", truncated_csv>>,
      <<"zebra", sales_csv>> }

no_writer == \A session \in Sessions : writers[session].pc = "start"

\* The request calls ingest_file.
WriterCall(session, db_path, file, table_name) ==
    /\ writers[session].pc = "start"
    /\ writers' = [writers EXCEPT ![session] = Writer("waiting", db_path, file, table_name)]
    /\ UNCHANGED <<duckdb_files, txn, observed, ingested, handles>>

\* The call gets the database: no other ingestion holds it.
WriterBegin(session) ==
    /\ writers[session].pc = "waiting"
    /\ IngestBegin(writers[session].db_path, writers[session].file,
                   writers[session].table_name)
    /\ writers' = [writers EXCEPT ![session].pc = "running"]

\* The store refuses the call, because another ingestion holds the database
\* under an exclusive lock: the call raises and has changed nothing.
WriterRefused(session) ==
    /\ writers[session].pc = "waiting"
    /\ in_progress
    /\ txn.db_path = writers[session].db_path
    /\ writers' = [writers EXCEPT ![session].pc = "raised"]
    /\ UNCHANGED <<duckdb_files, txn, observed, ingested, handles>>

\* The call that holds the database is over.
writer_done(pc) ==
    [session \in Sessions |->
        IF writers[session].pc = "running"
        THEN [writers[session] EXCEPT !.pc = pc]
        ELSE writers[session]]

WriterStep ==
    /\ \/ \E session \in Sessions, w \in workspaces, call \in RacingIngestCalls :
              WriterCall(session, w.duckdb_path, call[2], call[1])
       \/ \E session \in Sessions : WriterBegin(session)
       \/ \E session \in Sessions : WriterRefused(session)
       \/ (IngestReplace \/ IngestLoadRow) /\ UNCHANGED writers
       \/ IngestCommit /\ writers' = writer_done("returned")
       \/ IngestFail /\ writers' = writer_done("raised")
    /\ UNCHANGED <<auth_vars, deletions, calls>>
    /\ UNCHANGED <<workspaces, next_uuid, upload_dirs, upload_files, next_file_id, last>>

\* A list_tables or drop_table call of a session: "open" from the moment it
\* holds its handle, "returned" or "raised" once it is over.
EngineCall(pc, op, db_path, table_name) ==
    [pc |-> pc, op |-> op, db_path |-> db_path, table_name |-> table_name]

\* The call opens the database file, which get_sources and delete_source
\* have found to be there; if it cannot be opened the call raises ValueError.
EngineCallOpen(session, op, db_path, table_name, unopenable) ==
    /\ calls[session].pc # "open"
    /\ isfile(db_path)
    /\ calls' = [calls EXCEPT ![session] =
                    EngineCall(IF unopenable THEN "raised" ELSE "open",
                               op, db_path, table_name)]
    /\ handles' = IF unopenable THEN handles ELSE acquire(session, db_path)
    /\ UNCHANGED <<duckdb_files, ingested>>

\* The call does its work and is over: list_tables returns the descriptors,
\* drop_table raises ValueError for an invalid name and else returns whether it
\* removed the table, once no ingestion holds the database for writing.
EngineCallClose(session) ==
    LET call == calls[session]
        result == drop_table(call.db_path, call.table_name, FALSE)
    IN  /\ call.pc = "open"
        /\ handles' = release(session)
        /\ IF call.op = "list_tables"
           THEN /\ calls' = [calls EXCEPT ![session].pc = "returned"]
                /\ UNCHANGED <<duckdb_files, ingested>>
           ELSE /\ ~(in_progress /\ txn.db_path = call.db_path)
                /\ calls' = [calls EXCEPT ![session].pc =
                                IF result.raised THEN "raised" ELSE "returned"]
                /\ duckdb_files' = result.files
                /\ ingested' = still_there(result.files, ingested)

EngineCallStep ==
    /\ \/ \E session \in Sessions, op \in {"list_tables", "drop_table"},
             w \in workspaces, table_name \in {"alpha", "sa;les"},
             unopenable \in BOOLEAN :
              EngineCallOpen(session, op, w.duckdb_path, table_name, unopenable)
       \/ \E session \in Sessions : EngineCallClose(session)
    /\ UNCHANGED <<auth_vars, deletions, writers, txn, observed>>
    /\ UNCHANGED <<workspaces, next_uuid, upload_dirs, upload_files, next_file_id, last>>

(***************************************************************************)
(* DELETE /sources/{table_name} requests served side by side: each worker  *)
(* runs delete_source up to its os.path.isfile check, and later calls      *)
(* drop_table and answers.                                                 *)
(***************************************************************************)
Deletion(pc, table_name, request, db_path, status) ==
    [pc |-> pc, table_name |-> table_name, request |-> request,
     db_path |-> db_path, status |-> status]

\* delete_source from its drop_table call on (lines 191-201), answering 204
\* whatever drop_table returned.
delete_source_from_drop_ignores_result(db_path, table_name, unopenable) ==
    LET result == drop_table(db_path, table_name, unopenable)
    IN  IF result.raised
        THEN [status |-> 400, files |-> result.files]
        ELSE [status |-> 204, files |-> result.files]

\* delete_source from its drop_table call on (lines 191-201).
delete_source_from_drop(db_path, table_name, unopenable) ==
    LET result == drop_table(db_path, table_name, unopenable)
    IN  IF result.raised
        THEN [status |-> 400, files |-> result.files]
        ELSE IF ~result.dropped
        THEN [status |-> 404, files |-> result.files]
        ELSE [status |-> 204, files |-> result.files]

\* delete_source up to its os.path.isfile check (lines 184-189).
DeleteSourceCheck(session, table_name, workspace_id, user) ==
    LET found == _get_workspace_db_path(workspace_id, user)
    IN  /\ deletions[session].pc = "start"
        /\ deletions' =
               [deletions EXCEPT ![session] =
                   IF found.status = 404 \/ ~isfile(found.db_path)
                   THEN Deletion("done", table_name, Request(workspace_id, user),
                                 found.db_path, 404)
                   ELSE Deletion("checked", table_name, Request(workspace_id, user),
                                 found.db_path, 0)]
        /\ UNCHANGED <<duckdb_files, ingested>>

\* delete_source from its drop_table call to the response (lines 191-201).
DeleteSourceDrop(session, unopenable) ==
    LET call == deletions[session]
        r == delete_source_from_drop(call.db_path, call.table_name, unopenable)
    IN  /\ call.pc = "checked"
        /\ duckdb_files' = r.files
        /\ ingested' = still_there(r.files, ingested)
        /\ deletions' =
               [deletions EXCEPT ![session] =
                   Deletion("done", call.table_name, call.request, call.db_path, r.status)]

ConcurrentDeleteSource ==
    /\ \/ \E session \in Sessions, table_name \in TableNames,
             workspace_id \in WorkspaceIdStrings, user \in Users :
              DeleteSourceCheck(session, table_name, workspace_id, user)
       \/ \E session \in Sessions, unopenable \in BOOLEAN :
              DeleteSourceDrop(session, unopenable)
    /\ UNCHANGED <<auth_vars, engine_vars>>
    /\ UNCHANGED <<workspaces, next_uuid, upload_dirs, upload_files, next_file_id, last>>

\* No DELETE /sources request has been taken up yet.
no_deletion == \A session \in Sessions : deletions[session].pc = "start"

Init ==
    /\ workspaces = {}
    /\ next_uuid = 1
    /\ duckdb_files = [p \in {} |-> <<>>]
    /\ upload_dirs = {}
    /\ upload_files = {}
    /\ next_file_id = 1
    /\ last = Response("none", Request(<<>>, ""), 0, "", FALSE, <<>>)
    /\ ingested = {}
    /\ users = {}
    /\ next_user_id = 1
    /\ registrations = [session \in Sessions |-> Registration("start", "", "", "")]
    /\ now = 0
    /\ tokens = {}
    /\ auth_result = Call("none", <<>>, returned(0))
    /\ txn = Transaction("none", <<>>, broken_csv, "", <<>>, <<>>)
    /\ deletions = [session \in Sessions |->
                        Deletion("start", "", Request(<<>>, ""), <<>>, 0)]
    /\ writers = [session \in Sessions |-> Writer("start", <<>>, broken_csv, "")]
    /\ handles = {}
    /\ calls = [session \in Sessions |-> EngineCall("none", "", <<>>, "")]
    /\ observed = [db_path |-> <<>>, tables |-> <<>>,
                   writer |-> Transaction("none", <<>>, broken_csv, "", <<>>, <<>>)]

Next ==
    \/ CreateWorkspaceRequest
    \/ DeleteWorkspaceRequest
    \/ IngestFile
    \/ GetSourcesRequest
    \/ DeleteSourceRequest
    \/ UploadFileRequest
    \/ Respond

Spec == Init /\ [][Next]_vars

NextSources ==
    \/ CreateWorkspaceRequest
    \/ DeleteWorkspaceRequest
    \/ IngestFile
    \/ GetSourcesRequest
    \/ DeleteSourceRequest
    \/ Respond

SpecSources == Init /\ [][NextSources]_vars

NextUpload ==
    \/ CreateWorkspaceRequest
    \/ DeleteWorkspaceRequest
    \/ UploadFileRequest
    \/ Respond

SpecUpload == Init /\ [][NextUpload]_vars

NextWorkspaces ==
    \/ CreateWorkspaceRequest
    \/ DeleteWorkspaceRequest
    \/ ListWorkspacesRequest
    \/ Respond

SpecWorkspaces == Init /\ [][NextWorkspaces]_vars

NextAuth ==
    \/ RegisterUser
    \/ AuthenticateUserCall

SpecAuth == Init /\ [][NextAuth]_vars

NextTokens ==
    \/ CreateAccessTokenCall
    \/ DecodeTokenCall
    \/ Advance

SpecTokens == Init /\ [][NextTokens]_vars

\* The engine is followed on the database of one workspace.
NextEngine ==
    \/ (workspaces = {} /\ CreateWorkspaceRequest)
    \/ Respond
    \/ IngestStep
    \/ ConcurrentRead

SpecEngine == Init /\ [][NextEngine]_vars

\* Two requests ingesting at the same time into the database of one workspace,
\* with every other ingestion before they call.
NextWriters ==
    \/ (workspaces = {} /\ CreateWorkspaceRequest)
    \/ (no_writer /\ IngestFile)
    \/ Respond
    \/ WriterStep

SpecWriters == Init /\ [][NextWriters]_vars

\* The engine calls and the handles they hold, on the database of one workspace.
NextHandles ==
    \/ (workspaces = {} /\ CreateWorkspaceRequest)
    \/ Respond
    \/ IngestStep
    \/ EngineCallStep

SpecHandles == Init /\ [][NextHandles]_vars

\* Two DELETE requests on the database of one workspace, with every ingestion
\* before the first of them.
NextDeletes ==
    \/ (workspaces = {} /\ CreateWorkspaceRequest)
    \/ (no_deletion /\ IngestFile)
    \/ Respond
    \/ ConcurrentDeleteSource

SpecDeletes == Init /\ [][NextDeletes]_vars


(***************************************************************************)
(* Properties.                                                             *)
(***************************************************************************)
\* The user owns the workspace the request names.
Owns(user, workspace_id) ==
    /\ is_uuid(workspace_id)
    /\ \E w \in workspaces : w.id = UUID(workspace_id) /\ w.owner_id = user

\* The step answers a request of the user to the handler op for workspace_id.
Answers(op, workspace_id, user) ==
    last'.op = op /\ last'.request = Request(workspace_id, user)

\* C4: no two distinct workspace rows carry the same duckdb_path.
C4_UniquePath ==
    \A a \in workspaces, b \in workspaces :
        a.id # b.id => a.duckdb_path # b.duckdb_path

\* C10: delete_workspace by a user who does not own the workspace answers 404
\* and leaves the table `workspaces` as it was; a delete answering 204 was asked
\* by the owner and removes the requested row and no other.
C10_DeleteWorkspaceFrame ==
    [][\A workspace_id \in WorkspaceIdStrings, user \in Users :
          DeleteWorkspace(workspace_id, user) =>
              /\ ~Owns(user, workspace_id) =>
                     last'.status = 404 /\ workspaces' = workspaces
              /\ Owns(user, workspace_id) => last'.status = 204
              /\ last'.status = 204 =>
                     /\ Owns(user, workspace_id)
                     /\ \E w \in workspaces :
                            /\ w.id = UUID(workspace_id)
                            /\ workspaces' = workspaces \ {w}]_vars

\* C10: another user's delete was answered 404 and the row is still there.
C10_Witness ==
    /\ last.op = "delete_workspace"
    /\ last.status = 404
    /\ \E w \in workspaces :
           /\ uuid_str(w.id) = last.request.workspace_id
           /\ w.owner_id # last.request.user
           /\ Cardinality(workspaces) = 2


\* The table names GET /sources lists for the request.
Listed(workspace_id, user) ==
    LET body == get_sources(workspace_id, user, FALSE).body
    IN  {body[i].table_name : i \in 1..Len(body)}

\* What the owner of workspace w sees through GET /sources.
Visible(w) == get_sources(uuid_str(w.id), w.owner_id, FALSE).body

\* C1: a DELETE /sources/T answering 204 leaves T out of the listing of the
\* workspace, and a table that list_tables omits for a database stays omitted
\* by every step but an ingestion of that table into that database.
C1_DropThenList ==
    [][/\ (last'.op = "delete_source" /\ last'.status = 204) =>
             \A table_name \in TableNames, workspace_id \in WorkspaceIdStrings,
                user \in Users, unopenable \in BOOLEAN :
                 DeleteSource(table_name, workspace_id, user, unopenable)
                 => table_name \notin Listed(workspace_id, user)'
       /\ \A db_path \in DOMAIN duckdb_files' :
             LET before == IF isfile(db_path) THEN list_tables(db_path) ELSE <<>>
                 after == describe_tables(duckdb_files'[db_path])
             IN  \A i \in 1..Len(after) :
                     (\A j \in 1..Len(before) : before[j].table_name # after[i].table_name)
                     => \E call \in IngestCalls :
                            /\ call[1] = after[i].table_name
                            /\ Ingest(db_path, call[2], call[1])]_vars

\* C1: a drop answered 204 in a workspace that still lists another table.
C1_Witness ==
    /\ last.op = "delete_source"
    /\ last.status = 204
    /\ Listed(last.request.workspace_id, last.request.user) # {}

\* C2: every table of every database holds the rows and the columns of the file
\* ingested into it last, once, and GET /sources reports that many rows.
C2_LastIngestionWins ==
    /\ \A g \in ingested :
           /\ isfile(g.db_path)
           /\ \E i \in 1..Len(duckdb_files[g.db_path]) :
                  /\ duckdb_files[g.db_path][i].table_name = g.table_name
                  /\ duckdb_files[g.db_path][i].rows = g.file.rows
                  /\ duckdb_files[g.db_path][i].columns = g.file.columns
                  /\ \A j \in 1..Len(duckdb_files[g.db_path]) :
                         duckdb_files[g.db_path][j].table_name = g.table_name => j = i
    /\ \A db_path \in DOMAIN duckdb_files :
           \A i \in 1..Len(duckdb_files[db_path]) :
               \E g \in ingested :
                   g.db_path = db_path
                   /\ g.table_name = duckdb_files[db_path][i].table_name
    /\ \A w \in workspaces :
           \A i \in 1..Len(Visible(w)) :
               \E g \in ingested :
                   /\ g.db_path = w.duckdb_path
                   /\ g.table_name = Visible(w)[i].table_name
                   /\ Visible(w)[i].row_count = Len(g.file.rows)
                   /\ Len(Visible(w)[i].columns) = Len(g.file.columns)

\* C2: an ingestion has replaced table alpha, which holds the rows of stock.csv.
C2_Witness ==
    /\ last.op = "ingest_file"
    /\ last.detail = "replaced"
    /\ last.tables = <<"alpha">>
    /\ \E g \in ingested : g.table_name = "alpha" /\ g.file = stock_csv

\* C3: ingesting into the database of workspace a leaves what workspace b
\* shows through GET /sources as it was, for any two distinct workspaces.
C3_Isolation ==
    [][\A a \in workspaces, b \in workspaces :
          a.id # b.id =>
              \A call \in IngestCalls :
                  Ingest(a.duckdb_path, call[2], call[1]) => Visible(b)' = Visible(b)]_vars

\* Ascending by table name, no name twice.
Ascending(names) ==
    \A i \in 1..Len(names), j \in 1..Len(names) :
        i < j => name_rank(names[i]) < name_rank(names[j])

\* C5: every listing GET /sources answers is sorted by table name ascending.
C5_ListingSorted ==
    /\ last.op = "get_sources" => Ascending(last.tables)
    /\ \A workspace_id \in WorkspaceIdStrings, user \in Users, unopenable \in BOOLEAN :
           Ascending([i \in 1..Len(get_sources(workspace_id, user, unopenable).body) |->
                        get_sources(workspace_id, user, unopenable).body[i].table_name])

\* C5: zebra was ingested before alpha and the listing answered alpha, zebra.
C5_Witness ==
    /\ last.op = "get_sources"
    /\ last.tables = <<"alpha", "zebra">>
    /\ \E w \in workspaces :
           /\ uuid_str(w.id) = last.request.workspace_id
           /\ duckdb_files[w.duckdb_path][1].table_name = "zebra"
           /\ duckdb_files[w.duckdb_path][2].table_name = "alpha"

\* The request names a workspace of the user whose database file exists, can be
\* opened and has no table of the given name.
NoSuchTable(table_name, workspace_id, user) ==
    /\ Owns(user, workspace_id)
    /\ \A w \in workspaces :
           (w.id = UUID(workspace_id) /\ w.owner_id = user) =>
               /\ isfile(w.duckdb_path)
               /\ table_name \notin table_names(duckdb_files[w.duckdb_path])

\* C6 as stated: dropping a table the database does not have answers 404
\* 'Table not found' and changes nothing, whatever the name.
C6_DropAbsentAnyName ==
    [][\A table_name \in TableNames, workspace_id \in WorkspaceIdStrings, user \in Users :
          (Answers("delete_source", workspace_id, user)
              /\ NoSuchTable(table_name, workspace_id, user)
              /\ DeleteSource(table_name, workspace_id, user, FALSE))
          => /\ last'.status = 404
             /\ last'.detail = "Table not found"
             /\ duckdb_files' = duckdb_files]_vars

\* C6 as amended: dropping a table the database does not have, under a name
\* that is a valid identifier, makes drop_table return false without raising,
\* answers 404 'Table not found' and leaves every table as it was.
C6_DropAbsentValidName ==
    [][\A table_name \in TableNames, workspace_id \in WorkspaceIdStrings, user \in Users :
          (Answers("delete_source", workspace_id, user)
              /\ NoSuchTable(table_name, workspace_id, user)
              /\ valid_table_name(table_name)
              /\ DeleteSource(table_name, workspace_id, user, FALSE))
          => /\ last'.status = 404
             /\ last'.detail = "Table not found"
             /\ last'.engine
             /\ duckdb_files' = duckdb_files]_vars

\* C6: the engine was asked to drop a table that is not among the tables the
\* database has, and the request was answered 404.
C6_Witness ==
    /\ last.op = "delete_source"
    /\ last.status = 404
    /\ last.detail = "Table not found"
    /\ last.engine
    /\ Listed(last.request.workspace_id, last.request.user) # {}

\* C7 as stated: an upload whose extension is not allowed is answered 400 and
\* creates no directory and writes no file, whatever workspace it names.
C7_ExtensionGateAlways400 ==
    [][\A workspace_id \in WorkspaceIdStrings, user \in Users :
          (/\ Answers("upload_file", workspace_id, user)
           /\ \E filename \in Filenames, size \in PayloadSizes :
                  /\ _get_extension(filename) \notin ALLOWED_EXTENSIONS
                  /\ UploadFile(workspace_id, filename, size, user))
          => /\ last'.status = 400
             /\ upload_dirs' = upload_dirs
             /\ upload_files' = upload_files]_vars

\* C7 as amended: an upload whose extension is not allowed creates no directory
\* and writes no file; it is answered 400 when the workspace is the user's and
\* 404 'Workspace not found' when it is not.
C7_ExtensionGate ==
    [][\A workspace_id \in WorkspaceIdStrings, user \in Users :
          (/\ Answers("upload_file", workspace_id, user)
           /\ \E filename \in Filenames, size \in PayloadSizes :
                  /\ _get_extension(filename) \notin ALLOWED_EXTENSIONS
                  /\ UploadFile(workspace_id, filename, size, user))
          => /\ Owns(user, workspace_id) => last'.status = 400
             /\ ~Owns(user, workspace_id) =>
                    last'.status = 404 /\ last'.detail = "Workspace not found"
             /\ upload_dirs' = upload_dirs
             /\ upload_files' = upload_files]_vars

\* C7: an upload to the user's own workspace was rejected for its extension
\* and the workspace has no upload directory.
C7_Witness ==
    /\ last.op = "upload_file"
    /\ last.status = 400
    /\ last.detail = "Unsupported file type"
    /\ Owns(last.request.user, last.request.workspace_id)
    /\ upload_dirs = {}
    /\ upload_files = {}

\* C8: an upload with an allowed extension to the user's own workspace is
\* answered 400 'File is empty' for 0 bytes, 400 'File too large' for more than
\* 500 MiB, and 201 with the payload written for 1 byte up to 500 MiB.
C8_SizeGate ==
    [][\A workspace_id \in WorkspaceIdStrings, user \in Users :
          Answers("upload_file", workspace_id, user) =>
              \A filename \in Filenames, size \in PayloadSizes :
              (Owns(user, workspace_id)
                  /\ _get_extension(filename) \in ALLOWED_EXTENSIONS
                  /\ UploadFile(workspace_id, filename, size, user))
              => /\ size = 0 =>
                        /\ last'.status = 400
                        /\ last'.detail = "File is empty"
                        /\ upload_files' = upload_files
                 /\ size > 500 * 1024 * 1024 =>
                        /\ last'.status = 400
                        /\ last'.detail = "File too large"
                        /\ upload_files' = upload_files
                 /\ (1 <= size /\ size <= 500 * 1024 * 1024) =>
                        /\ last'.status = 201
                        /\ \E f \in upload_files' \ upload_files :
                               /\ f.size = size
                               /\ f.owner_id = user
                               /\ f.workspace_id = UUID(workspace_id)]_vars

\* C8: a payload of exactly 500 MiB was accepted and is on disk.
C8_Witness ==
    /\ last.op = "upload_file"
    /\ last.status = 201
    /\ \E f \in upload_files : f.size = 500 * 1024 * 1024

\* C9: a GET /sources, DELETE /sources/{table} or POST /upload naming a
\* workspace that is not the user's is answered 404 without an engine call, and
\* leaves every database file, upload directory and uploaded file as it was.
C9_OwnershipGate ==
    [][\A workspace_id \in WorkspaceIdStrings, user \in Users :
          ~Owns(user, workspace_id) =>
              /\ (/\ Answers("get_sources", workspace_id, user)
                  /\ \E unopenable \in BOOLEAN :
                         GetSources(workspace_id, user, unopenable))
                 => /\ last'.status = 404
                    /\ ~last'.engine
                    /\ last'.tables = <<>>
              /\ (/\ Answers("delete_source", workspace_id, user)
                  /\ \E table_name \in TableNames, unopenable \in BOOLEAN :
                         DeleteSource(table_name, workspace_id, user, unopenable))
                 => /\ last'.status = 404
                    /\ ~last'.engine
                    /\ duckdb_files' = duckdb_files
              /\ (/\ Answers("upload_file", workspace_id, user)
                  /\ \E filename \in Filenames, size \in PayloadSizes :
                         UploadFile(workspace_id, filename, size, user))
                 => /\ last'.status = 404
                    /\ upload_dirs' = upload_dirs
                    /\ upload_files' = upload_files
                    /\ duckdb_files' = duckdb_files]_vars

\* C9: a user asked to drop a table of another user's workspace whose database
\* has tables, and was answered 404.
C9_Witness ==
    /\ last.op = "delete_source"
    /\ last.status = 404
    /\ last.detail = "Workspace not found"
    /\ \E w \in workspaces :
           /\ uuid_str(w.id) = last.request.workspace_id
           /\ w.owner_id # last.request.user
           /\ isfile(w.duckdb_path)
           /\ duckdb_files[w.duckdb_path] # <<>>

\* The ids list_workspaces answers the user with.
ListedWorkspaces(user) ==
    {list_workspaces(user)[i].id : i \in 1..Len(list_workspaces(user))}

\* C11: GET /workspaces answers exactly the rows whose owner is the user, each
\* once; a workspace enters a user's list only by that user's create_workspace
\* and leaves it only by that user's delete_workspace of it, so no user's list
\* ever holds a workspace another user created.
C11_ListScopedToUser ==
    [][/\ \A user \in Users :
             ListWorkspaces(user) =>
                 /\ {last'.tables[i] : i \in 1..Len(last'.tables)} =
                        {uuid_str(w.id) : w \in {v \in workspaces : v.owner_id = user}}
                 /\ \A i \in 1..Len(last'.tables), j \in 1..Len(last'.tables) :
                        last'.tables[i] = last'.tables[j] => i = j
       /\ \A user \in Users, workspace_id \in WorkspaceIdStrings :
             /\ (workspace_id \notin ListedWorkspaces(user)
                     /\ workspace_id \in ListedWorkspaces(user)')
                => /\ last'.status = 201
                   /\ Answers("create_workspace", workspace_id, user)
             /\ (workspace_id \in ListedWorkspaces(user)
                     /\ workspace_id \notin ListedWorkspaces(user)')
                => /\ last'.status = 204
                   /\ Answers("delete_workspace", workspace_id, user)
             /\ (last'.status = 201 /\ Answers("create_workspace", workspace_id, user))
                => /\ workspace_id \in ListedWorkspaces(user)'
                   /\ \A other \in Users \ {user} :
                          workspace_id \notin ListedWorkspaces(other)']_vars

\* C11: each of two users owns a workspace and one of them was answered a list
\* of one workspace.
C11_Witness ==
    /\ last.op = "list_workspaces"
    /\ Len(last.tables) = 1
    /\ \E a \in workspaces, b \in workspaces :
           /\ a.owner_id = last.request.user
           /\ b.owner_id # last.request.user
           /\ last.tables = <<uuid_str(a.id)>>

\* The step ends a register_user call of the session.
Completes(session) ==
    /\ registrations'[session].pc = "done"
    /\ \/ RegisterUserCommit(session)
       \/ \E email \in Emails, password \in Passwords :
              RegisterUserQuery(session, email, password)

\* C12: a register_user call that ends while its email has a row raises
\* ValueError 'Email already registered' and adds no row, also when the row
\* was committed between the existence check of the call and its insert.
C12_DuplicateEmailRaisesValueError ==
    [][\A session \in Sessions :
          (Completes(session) /\ query_user(registrations'[session].email) # {})
          => /\ registrations'[session].raised = "Email already registered"
             /\ users' = users]_vars

\* C13: authenticate_user returns a token whose subject is the id of the user
\* with the email exactly when there is one and the password matches its hash;
\* otherwise it raises ValueError 'Invalid email or password', whichever of the
\* two is wrong, and issues no token.
C13_AuthenticateUser ==
    [][\A email \in Emails, password \in Passwords :
          (auth_result'.op = "authenticate_user"
              /\ auth_result'.args = <<email, password>>
              /\ AuthenticateUser(email, password))
          => IF \E u \in users :
                    u.email = email /\ verify_password(password, u.password_hash)
             THEN /\ auth_result'.raised = ""
                  /\ \E u \in users :
                         /\ u.email = email
                         /\ auth_result'.value.payload.sub = uuid_str(u.id)
                         /\ decode_token(auth_result'.value) = returned(u.id)
             ELSE /\ auth_result'.raised = "Invalid email or password"
                  /\ tokens' = tokens]_vars

\* C13: with two users registered, one of them was given a token for its id,
\* and its password is not the other's.
C13_Witness ==
    /\ auth_result.op = "authenticate_user"
    /\ auth_result.raised = ""
    /\ \E u \in users, v \in users :
           /\ u.email = auth_result.args[1]
           /\ v.email # u.email
           /\ ~verify_password(auth_result.args[2], v.password_hash)
           /\ auth_result.value.payload.sub = uuid_str(u.id)

\* The seconds a create_access_token call asked the token to live for.
Lifetime(c) == IF c.expires_delta = <<>> THEN 60 * 60 ELSE c.expires_delta[1]

\* C14 as stated: a token decodes to its user while now is before issue time +
\* d and is rejected as invalid once that expiry has passed and for every
\* non-positive d; a token rejected once is rejected ever after.
C14_RoundTripNonPositiveRejected ==
    [][/\ \A c \in tokens' :
             /\ now' < c.at + Lifetime(c) =>
                    decode_token(c.token)' = returned(c.user_id)
             /\ (now' > c.at + Lifetime(c) \/ Lifetime(c) <= 0) =>
                    decode_token(c.token)' = raised("Invalid token")
       /\ \A c \in tokens :
             decode_token(c.token).raised # "" => decode_token(c.token)'.raised # ""]_vars

\* C14 as amended: a token decodes to its user while now, in whole seconds, is
\* not after issue time + d, and is rejected as invalid once it is after, which
\* it is from the start for d of -1 second or less; a token rejected once is
\* rejected ever after.
C14_RoundTripAndExpiry ==
    [][/\ \A c \in tokens' :
             /\ now' <= c.at + Lifetime(c) =>
                    decode_token(c.token)' = returned(c.user_id)
             /\ (now' > c.at + Lifetime(c) \/ Lifetime(c) <= -1) =>
                    decode_token(c.token)' = raised("Invalid token")
       /\ \A c \in tokens :
             decode_token(c.token).raised # "" => decode_token(c.token)'.raised # ""
       /\ \A c \in tokens :
             (auth_result'.op = "decode_token" /\ DecodeToken(c.token)) =>
                 auth_result'.raised = (IF now > c.at + Lifetime(c)
                                        THEN "Invalid token" ELSE "")]_vars

\* C14: a token with a positive lifetime was decoded after its expiry and
\* rejected.
C14_Witness ==
    /\ auth_result.op = "decode_token"
    /\ auth_result.raised = "Invalid token"
    /\ \E c \in tokens :
           /\ c.token = auth_result.args
           /\ Lifetime(c) > 0
           /\ now > c.at + Lifetime(c)


\* No engine call has to be made for workspace w: GET /sources answers 200 with
\* an empty list and DELETE /sources/{any name} answers 404, both without
\* calling the engine.
Untouched(w) ==
    /\ get_sources(uuid_str(w.id), w.owner_id, FALSE) =
           [status |-> 200, detail |-> "", engine |-> FALSE, body |-> <<>>]
    /\ \A table_name \in TableNames :
           LET r == delete_source(table_name, uuid_str(w.id), w.owner_id, FALSE)
           IN  r.status = 404 /\ ~r.engine

\* C15: a create_workspace answering 201 creates no database file and leaves
\* the new workspace answering GET /sources with 200 and an empty list and
\* DELETE /sources/{any name} with 404, both without an engine call; a
\* workspace in that condition stays in it through every step but an
\* ingestion into its database.
C15_LazyDatabase ==
    [][/\ \A workspace_id \in WorkspaceIdStrings, user \in Users :
              (Answers("create_workspace", workspace_id, user) /\ last'.status = 201) =>
                  /\ duckdb_files' = duckdb_files
                  /\ \A w \in workspaces' :
                         uuid_str(w.id) = workspace_id => Untouched(w)'
       /\ \A w \in workspaces :
              (/\ w \in workspaces'
               /\ Untouched(w)
               /\ ~\E call \in IngestCalls : Ingest(w.duckdb_path, call[2], call[1]))
              => Untouched(w)']_vars


\* C16: a POST /upload answering 201 adds one file, under the uploads
\* directory of the owner and the workspace of the request, and nothing else:
\* the workspace rows and the database files are as before, and so is what
\* every workspace shows through GET /sources.
C16_UploadOnlyWritesRawFile ==
    [][\A workspace_id \in WorkspaceIdStrings, user \in Users :
          (Answers("upload_file", workspace_id, user) /\ last'.status = 201) =>
              /\ upload_dirs' = upload_dirs \cup {<<user, UUID(workspace_id)>>}
              /\ \E f \in upload_files' :
                     /\ f \notin upload_files
                     /\ f.owner_id = user
                     /\ f.workspace_id = UUID(workspace_id)
                     /\ upload_files' = upload_files \cup {f}
              /\ workspaces' = workspaces
              /\ duckdb_files' = duckdb_files
              /\ \A w \in workspaces : Visible(w)' = Visible(w)]_vars

\* C16: an upload was answered 201 for a workspace whose database has a table.
C16_Witness ==
    /\ last.op = "upload_file"
    /\ last.status = 201
    /\ \E w \in workspaces :
           /\ uuid_str(w.id) = last.request.workspace_id
           /\ w.owner_id = last.request.user
           /\ Visible(w) # <<>>
           /\ \E f \in upload_files : f.workspace_id = w.id /\ f.owner_id = w.owner_id


\* C17: a workspace created at a duckdb_path that no workspace row holds shows
\* no table through GET /sources. Tables found at such a path were ingested
\* into a workspace that has been deleted since, the case of an owner who
\* deletes a workspace and creates one under the same name.
C17_TablesEndWithWorkspace ==
    [][\A workspace_id \in WorkspaceIdStrings, user \in Users :
          (Answers("create_workspace", workspace_id, user) /\ last'.status = 201) =>
              \A v \in workspaces' :
                  (/\ uuid_str(v.id) = workspace_id
                   /\ \A w \in workspaces : w.duckdb_path # v.duckdb_path)
                  => Visible(v)' = <<>>]_vars


\* The logical types a column is reported with.
LogicalTypes == {"integer", "floating-point", "text", "boolean", "date/time", "other"}

\* C18: a table that holds the CSV with header id,name,score and two data rows
\* is listed by GET /sources with exactly the columns id, name, score in that
\* order, each with a name, a logical type and a native type, and with
\* row_count 2: the header line is not counted.
C18_RoundTripSchema ==
    \A w \in workspaces, g \in ingested :
        (g.db_path = w.duckdb_path /\ g.file = sales_csv) =>
            \E i \in 1..Len(Visible(w)) :
                LET d == Visible(w)[i]
                IN  /\ d.table_name = g.table_name
                    /\ [k \in 1..Len(d.columns) |-> d.columns[k].name]
                           = <<"id", "name", "score">>
                    /\ \A k \in 1..Len(d.columns) :
                           /\ DOMAIN d.columns[k] = {"name", "type", "duckdb_type"}
                           /\ d.columns[k].type \in LogicalTypes
                           /\ d.columns[k].duckdb_type = sales_csv.columns[k].duckdb_type
                    /\ d.row_count = Len(sales_csv.rows)
                    /\ d.row_count = 2

\* C18: GET /sources has listed the one table of a workspace, alpha, into which
\* the CSV with header id,name,score was ingested.
C18_Witness ==
    /\ last.op = "get_sources"
    /\ last.status = 200
    /\ last.tables = <<"alpha">>
    /\ \E w \in workspaces, g \in ingested :
           /\ uuid_str(w.id) = last.request.workspace_id
           /\ w.owner_id = last.request.user
           /\ g.db_path = w.duckdb_path
           /\ g.table_name = "alpha"
           /\ g.file = sales_csv


\* The descriptor list_tables gives of the table an ingestion by transaction t
\* found under its table name, and of the table it is to leave there.
old_content(t) == describe_table(table_of(t.before, t.table_name)[1])
new_content(t) == describe_table(load_table(<<>>, t.file, t.table_name)[1])

C25_OneRowPerEmail ==
    \A a \in users, b \in users : a.email = b.email => a = b

\* C25: two calls passed the existence check for one email; the insert of one
\* was committed and the insert of the other was refused by the constraint.
C25_Witness ==
    \E s1 \in Sessions, s2 \in Sessions :
        /\ s1 # s2
        /\ registrations[s1].pc = "done"
        /\ registrations[s1].raised = ""
        /\ registrations[s2].pc = "done"
        /\ registrations[s2].raised = "IntegrityError"
        /\ registrations[s1].email = registrations[s2].email
        /\ Cardinality(query_user(registrations[s2].email)) = 1


\* C23: a DELETE /sources/T answering 204 removes T only: the workspace lists
\* afterwards what it listed before without the descriptor of T, so every
\* other table with the name, the columns and the row count it had, in the
\* same order, and the other database files are as they were.
C23_DropFrame ==
    [][\A table_name \in TableNames, workspace_id \in WorkspaceIdStrings, user \in Users :
          (Answers("delete_source", workspace_id, user)
              /\ last'.status = 204
              /\ \E unopenable \in BOOLEAN :
                     DeleteSource(table_name, workspace_id, user, unopenable))
          => \A w \in workspaces :
                 uuid_str(w.id) = workspace_id =>
                     /\ Visible(w)' =
                            SelectSeq(Visible(w), LAMBDA d : d.table_name # table_name)
                     /\ Len(Visible(w)') = Len(Visible(w)) - 1
                     /\ \A db_path \in DOMAIN duckdb_files :
                            /\ db_path \in DOMAIN duckdb_files'
                            /\ db_path # w.duckdb_path =>
                                   duckdb_files'[db_path] = duckdb_files[db_path]]_vars

\* C23: a drop was answered 204 and the workspace still lists its other table,
\* zebra, with the three columns and the two rows ingested into it.
C23_Witness ==
    /\ last.op = "delete_source"
    /\ last.status = 204
    /\ \E w \in workspaces :
           /\ uuid_str(w.id) = last.request.workspace_id
           /\ w.owner_id = last.request.user
           /\ Len(Visible(w)) = 1
           /\ Visible(w)[1].table_name = "zebra"
           /\ Visible(w)[1].row_count = 2
           /\ Len(Visible(w)[1].columns) = 3


\* The engine call the request makes raises: the user owns the workspace, its
\* database file is there, and list_tables cannot open it, or drop_table
\* cannot open it or is given a name that is no valid identifier.
list_tables_raises(workspace_id, user, unopenable) ==
    /\ Owns(user, workspace_id)
    /\ isfile(_get_workspace_db_path(workspace_id, user).db_path)
    /\ unopenable

drop_table_raises(table_name, workspace_id, user, unopenable) ==
    /\ Owns(user, workspace_id)
    /\ isfile(_get_workspace_db_path(workspace_id, user).db_path)
    /\ drop_table(_get_workspace_db_path(workspace_id, user).db_path,
                  table_name, unopenable).raised

\* C24: a GET /sources whose list_tables call raises and a DELETE /sources/T
\* whose drop_table call raises are answered with an error status (4xx, 5xx).
C24_EngineFailureIsErrorStatus ==
    [][\A workspace_id \in WorkspaceIdStrings, user \in Users :
          /\ (/\ Answers("get_sources", workspace_id, user)
              /\ list_tables_raises(workspace_id, user, TRUE)
              /\ GetSources(workspace_id, user, TRUE))
             => last'.status >= 400
          /\ \A table_name \in TableNames, unopenable \in BOOLEAN :
                 (/\ Answers("delete_source", workspace_id, user)
                  /\ drop_table_raises(table_name, workspace_id, user, unopenable)
                  /\ DeleteSource(table_name, workspace_id, user, unopenable))
                 => last'.status >= 400]_vars

\* C24 as amended: a DELETE /sources/T whose drop_table call raises is answered
\* 400 and changes no database file; a GET /sources whose list_tables call
\* raises is answered 200 with an empty list; a drop_table that returns false
\* is answered 404; and a request for a database file that is absent is
\* answered, 200 with an empty list or 404, without an engine call.
C24_ErrorTranslation ==
    [][\A workspace_id \in WorkspaceIdStrings, user \in Users :
          /\ (/\ Answers("get_sources", workspace_id, user)
              /\ list_tables_raises(workspace_id, user, TRUE)
              /\ GetSources(workspace_id, user, TRUE))
             => (last'.status = 200 /\ last'.tables = <<>> /\ last'.engine)
          /\ \A unopenable \in BOOLEAN :
                 (/\ Answers("get_sources", workspace_id, user)
                  /\ Owns(user, workspace_id)
                  /\ ~isfile(_get_workspace_db_path(workspace_id, user).db_path)
                  /\ GetSources(workspace_id, user, unopenable))
                 => (last'.status = 200 /\ last'.tables = <<>> /\ ~last'.engine)
          /\ \A table_name \in TableNames, unopenable \in BOOLEAN :
                 (/\ Answers("delete_source", workspace_id, user)
                  /\ Owns(user, workspace_id)
                  /\ DeleteSource(table_name, workspace_id, user, unopenable))
                 => IF ~isfile(_get_workspace_db_path(workspace_id, user).db_path)
                    THEN last'.status = 404 /\ ~last'.engine
                         /\ duckdb_files' = duckdb_files
                    ELSE IF drop_table_raises(table_name, workspace_id, user, unopenable)
                    THEN last'.status = 400 /\ last'.engine
                         /\ duckdb_files' = duckdb_files
                    ELSE IF NoSuchTable(table_name, workspace_id, user)
                    THEN last'.status = 404 /\ last'.engine
                         /\ duckdb_files' = duckdb_files
                    ELSE last'.status = 204 /\ last'.engine]_vars

\* C24: list_tables was called for a database that has tables and raised, and
\* GET /sources answered 200 with an empty list.
C24_Witness ==
    /\ last.op = "get_sources"
    /\ last.status = 200
    /\ last.engine
    /\ last.tables = <<>>
    /\ \E w \in workspaces :
           /\ uuid_str(w.id) = last.request.workspace_id
           /\ w.owner_id = last.request.user
           /\ Visible(w) # <<>>


holds_exactly(w, file) ==
    /\ Len(table_of(duckdb_files[w.db_path], w.table_name)) = 1
    /\ table_of(duckdb_files[w.db_path], w.table_name)[1].rows = file.rows
    /\ table_of(duckdb_files[w.db_path], w.table_name)[1].columns = file.columns

====
